---- MODULE Spec2Model ----
(***************************************************************************)
(* A model of emmet's OrbitalBuilder                                       *)
(* (emmet-builders/emmet/builders/molecules/orbitals.py): the discovery of *)
(* unprocessed molecules (get_items, prechunk), the selection of orbital   *)
(* entries per solvent (process_item) and the commit of the derived        *)
(* documents to the orbitals store (update_targets).                       *)
(*                                                                         *)
(* The three stores are maggma stores.  Their operations are modelled by   *)
(* their documented behaviour at the places the builder calls them:        *)
(* query by criteria, distinct values of a field, remove_docs by criteria, *)
(* and update, which upserts the documents one after the other, each       *)
(* replacing one document with the same key fields or being inserted.      *)
(* Both the molecules store and the orbitals store are keyed by            *)
(* molecule_id (self.molecules.key, self.orbitals.key).                    *)
(***************************************************************************)
EXTENDS Integers, Sequences, FiniteSets

(***************************************************************************)
(* Bounds of the model.                                                    *)
(***************************************************************************)
MaxMols == 2
MaxDiscoveryMols == 3
MaxSplits == 3
MaxRuns == 2
MaxEdits == 1
MaxNsw == 2
MaxSteps == 2
MaxItems == 2

MolIds == 1..MaxMols
DiscoveryMolIds == 1..MaxDiscoveryMols
Formulas == {"C2H4", "H2O", "LiH"}
PipelineFormulas == {"C2H4", "H2O"}
Solvents == {"water", "vacuum"}
TaskIds == (1..7) \cup {9}

(***************************************************************************)
(* The task documents the molecules' entries come from.  An entry of a     *)
(* MoleculeDoc is the projection of its task: task_id, charge,             *)
(* spin_multiplicity, output.nbo (present or None), orig.rem.run_nbo6,     *)
(* orig.rem.nbo_external, solvent, level_of_theory and energy.  theory is  *)
(* sum(evaluate_lot(level_of_theory)); energy is in integer units.         *)
(***************************************************************************)
MkEntry(t, c, s, n, r6, ext, solv, th, en) ==
    [task_id |-> t, charge |-> c, spin_multiplicity |-> s, nbo |-> n,
     run_nbo6 |-> r6, nbo_external |-> ext, solvent |-> solv,
     theory |-> th, energy |-> en]

Entry(t) ==
    CASE t = 1 -> MkEntry(1, 0, 1, TRUE, TRUE, FALSE, "water", 2, -5)
      [] t = 2 -> MkEntry(2, 0, 1, TRUE, TRUE, FALSE, "water", 2, -5)
      [] t = 3 -> MkEntry(3, 0, 1, TRUE, FALSE, TRUE, "vacuum", 1, -3)
      [] t = 4 -> MkEntry(4, 0, 1, TRUE, TRUE, FALSE, "water", 1, -3)
      [] t = 5 -> MkEntry(5, 0, 1, FALSE, TRUE, FALSE, "water", 1, -7)
      [] t = 6 -> MkEntry(6, 1, 2, TRUE, TRUE, FALSE, "water", 1, -7)
      [] t = 8 -> MkEntry(8, 0, 1, TRUE, TRUE, FALSE, "vacuum", 1, -3)
      [] t = 9 -> MkEntry(9, 0, 1, TRUE, TRUE, FALSE, "water", 1, -3)
      [] OTHER -> MkEntry(t, 0, 1, TRUE, FALSE, FALSE, "water", 1, -7)

(* The entries lists a stored molecule may carry (lists of task ids), and
   those the molecules start with.  Task 8 has no document in the tasks
   store; the stored document of task 9 does not validate as a TaskDocument. *)
EntryLists ==
    {<<5>>, <<1, 2, 3>>, <<2, 1>>, <<1, 4>>, <<6, 3>>, <<7>>, <<2, 3, 8>>}
InitialEntryLists == {<<1, 2, 3>>, <<5>>}

(* The query option the builder is constructed with: a criterion on
   formula_alphabetical ($in; all formulas when absent) and possibly one on
   deprecated. *)
NoCriteria == [formulas |-> Formulas, deprecated |-> "unset"]

QueryOptions ==
    {NoCriteria,
     [formulas |-> {"C2H4", "LiH"}, deprecated |-> "unset"],
     [formulas |-> Formulas, deprecated |-> "true"]}

VARIABLES
    molecules,   \* molecules store: molecule_id -> MoleculeDoc
    tasks,       \* tasks store: the task ids whose document is stored
    orbitals,    \* orbitals store: a set of orbital documents
    query,       \* self.query
    timestamp,   \* self.timestamp (0: not set yet)
    total,       \* self.total
    queue,       \* groups yielded by get_items, not yet processed
    batch,       \* processed groups not yet committed: <<[items, docs]>>
    chunks,      \* criteria yielded by the last prechunk call
    splits,      \* number_splits of the last prechunk call (0: none)
    calls,       \* what the update_targets call just made logged and called
    last,        \* the last commit on the sources as they are: batch, store
    pass,        \* 0: nothing committed on the current sources; 1, 2: passes
    mode,        \* "run": groups of get_items; "retry": the last chunk again
    edits,       \* number of changes of the source stores so far
    step,        \* the operation that ran last
    run,         \* the run under way: the store and pending formulas it began with
    commits,     \* the update_targets calls under way in concurrent builders
    inputs,      \* the arguments of a Calculation.from_vasp_files call
    outputs,     \* what the call returned or raised
    boltztrap    \* boltztrap store of a Boltztrap2DosBuilder: its documents

vars == <<molecules, tasks, orbitals, query, timestamp, total, queue, batch,
          chunks, splits, calls, last, pass, mode, edits, step, run, commits,
          inputs, outputs, boltztrap>>

(* Python's None, and the state before any call *)
None == [kind |-> "None"]

NoRun ==
    [store |-> {}, forms |-> {}, state |-> "none", failed |-> {}, prevFailed |-> {}]

Committers == {"A", "B"}

NoCommits ==
    [p \in Committers |->
       [pc |-> "idle", docs |-> <<>>, todo |-> <<>>, overlapped |-> FALSE]]

NoCall == [log |-> "", ndocs |-> 0, ops |-> <<>>]

(* No commit was made on the source stores as they are *)
NoLastCommit == [batch |-> <<>>, before |-> {}, first |-> {}]

(***************************************************************************)
(* Helpers on sequences and sets.                                          *)
(***************************************************************************)
Range(s) == {s[i] : i \in DOMAIN s}

Perms(S) ==
    {s \in [1..Cardinality(S) -> S] : \A i, j \in DOMAIN s : i # j => s[i] # s[j]}

RECURSIVE Flatten(_)
Flatten(ss) == IF ss = <<>> THEN <<>> ELSE Head(ss) \o Flatten(Tail(ss))

(* A slip: the quotient is rounded down *)
CeilDown(a, b) == a \div b

Ceil(a, b) == (a + b - 1) \div b

RECURSIVE Ascending(_)
Ascending(S) ==
    IF S = {} THEN <<>>
    ELSE LET m == CHOOSE x \in S : \A y \in S : x <= y
         IN <<m>> \o Ascending(S \ {m})

(***************************************************************************)
(* Discovery: get_items and prechunk.                                      *)
(***************************************************************************)
(* A molecules-store query: the documents matching the criteria. *)
Matches(d, q) ==
    /\ d.formula_alphabetical \in q.formulas
    /\ \/ q.deprecated = "unset"
       \/ d.deprecated = (q.deprecated = "true")

(* A slip: the deprecated criterion of self.query is kept *)
TempQueryAsGiven == query

(* temp_query = dict(self.query); temp_query["deprecated"] = False *)
TempQuery == [query EXCEPT !.deprecated = "false"]

(* all_mols: the molecule documents matching temp_query *)
AllMols ==
    {molecules[m] : m \in {x \in DOMAIN molecules : Matches(molecules[x], TempQuery)}}

(* A slip: the distinct values of task_id instead of molecule_id *)
ProcessedDocsByTask == {d.task_id : d \in orbitals}

(* A slip: the ids are those of the store as it was before the commit
   under way, as if the commit were one step *)
ProcessedDocsSnapshot == {d.molecule_id : d \in orbitals \cup last.before}

(* processed_docs = set(self.orbitals.distinct("molecule_id")) *)
ProcessedDocs == {d.molecule_id : d \in orbitals}

(* A slip: the processed ids are not subtracted *)
ToProcessDocsAll == {d.molecule_id : d \in AllMols}

(* to_process_docs: the ids of all_mols that are not processed *)
ToProcessDocs == {d.molecule_id : d \in AllMols} \ ProcessedDocs

(* A slip: the formulas of all the molecules, processed or not *)
ToProcessFormsAll == {d.formula_alphabetical : d \in AllMols}

(* to_process_forms: the formulas of the molecules to process *)
ToProcessForms ==
    {d.formula_alphabetical : d \in {x \in AllMols : x.molecule_id \in ToProcessDocs}}

(* mol_query = dict(temp_query); mol_query["formula_alphabetical"] = formula *)
MolQuery(formula) == [TempQuery EXCEPT !.formulas = {formula}]

(* A slip: only the molecules still to process are put in the group *)
GroupOfPending(formula) ==
    LET ids == {m \in DOMAIN molecules :
                  /\ Matches(molecules[m], MolQuery(formula))
                  /\ m \in ToProcessDocs}
        order == Ascending(ids)
    IN [i \in DOMAIN order |-> molecules[order[i]]]

(* molecules = list(self.molecules.query(criteria=mol_query)), in store order *)
GroupOf(formula) ==
    LET ids == {m \in DOMAIN molecules : Matches(molecules[m], MolQuery(formula))}
        order == Ascending(ids)
    IN [i \in DOMAIN order |-> molecules[order[i]]]

(* A slip: a grouper that drops a last list shorter than n *)
RECURSIVE GrouperFullOnly(_, _)
GrouperFullOnly(s, n) ==
    IF n = 0 \/ Len(s) < n THEN <<>>
    ELSE <<SubSeq(s, 1, n)>> \o GrouperFullOnly(SubSeq(s, n + 1, Len(s)), n)

(* maggma.utils.grouper(iterable, n): lists of n successive items, the last
   one shorter; iteration ends at the first empty list, so n = 0 gives none. *)
RECURSIVE Grouper(_, _)
Grouper(s, n) ==
    IF n = 0 \/ s = <<>> THEN <<>>
    ELSE IF Len(s) <= n THEN <<s>>
    ELSE <<SubSeq(s, 1, n)>> \o Grouper(SubSeq(s, n + 1, Len(s)), n)

Idle == queue = <<>> /\ batch = <<>>

(* get_items: stamps the run, computes the pending formulas and yields one
   group of molecule documents per formula (a set is iterated in any order). *)
GetItems ==
    /\ Idle
    /\ timestamp < MaxRuns
    /\ timestamp' = timestamp + 1
    /\ total' = Cardinality(ToProcessForms)
    /\ \E order \in Perms(ToProcessForms) :
          queue' = [i \in DOMAIN order |-> GroupOf(order[i])]
    /\ mode' = "run"
    /\ chunks' = <<>> /\ splits' = 0 /\ calls' = NoCall
    /\ step' = "get_items"
    /\ run' = IF run.state = "cancelled" THEN [run EXCEPT !.state = "resumed"]
              ELSE [store |-> orbitals, forms |-> ToProcessForms,
                    state |-> "running", failed |-> {},
                    prevFailed |-> run.failed]
    /\ UNCHANGED <<molecules, tasks, orbitals, query, batch, last, pass, edits,
                   commits,
                   inputs, outputs, boltztrap>>

(* prechunk(number_splits): the pending formulas in lists of
   N = ceil(len(to_process_forms) / number_splits). *)
Prechunk ==
    /\ Idle
    /\ \E number_splits \in 1..MaxSplits :
         \E order \in Perms(ToProcessForms) :
            LET N == Ceil(Len(order), number_splits)
            IN /\ chunks' = Grouper(order, N)
               /\ splits' = number_splits
    /\ calls' = NoCall
    /\ step' = "prechunk"
    /\ UNCHANGED <<molecules, tasks, orbitals, query, timestamp, total, queue,
                   batch, last, pass, mode, edits, run, commits,
                   inputs, outputs, boltztrap>>

(***************************************************************************)
(* Transform: process_item.                                                *)
(***************************************************************************)
(* A slip: the charge and the spin of the entries are not compared *)
CorrectChargeSpinAny(mol) == [i \in DOMAIN mol.entries |-> Entry(mol.entries[i])]

(* correct_charge_spin: the entries with the molecule's charge and spin *)
CorrectChargeSpin(mol) ==
    LET entries == [i \in DOMAIN mol.entries |-> Entry(mol.entries[i])]
        Test(e) == /\ e.charge = mol.charge
                   /\ e.spin_multiplicity = mol.spin_multiplicity
    IN SelectSeq(entries, Test)

(* A slip: the NBO output and the rem flags are not looked at *)
OrbitalEntriesUnfiltered(mol) == CorrectChargeSpin(mol)

(* orbital_entries: those with NBO output, run with NBO6 or an external NBO *)
OrbitalEntries(mol) ==
    LET Test(e) == e.nbo /\ (e.run_nbo6 \/ e.nbo_external)
    IN SelectSeq(CorrectChargeSpin(mol), Test)

(* The keys of by_solvent in insertion order: each solvent where it first
   occurs in the entries. *)
RECURSIVE SolventOrder(_)
SolventOrder(entries) ==
    IF entries = <<>> THEN <<>>
    ELSE LET init == SolventOrder(SubSeq(entries, 1, Len(entries) - 1))
             s == entries[Len(entries)].solvent
         IN IF s \in Range(init) THEN init ELSE Append(init, s)

(* by_solvent[solvent]: the entries of that solvent, in the entries' order *)
BySolvent(entries, solvent) ==
    LET Test(e) == e.solvent = solvent
    IN SelectSeq(entries, Test)

(* The sort key (sum(evaluate_lot(level_of_theory)), energy), compared as
   Python compares tuples. *)
KeyLess(a, b) ==
    \/ a.theory < b.theory
    \/ a.theory = b.theory /\ a.energy < b.energy

(* sorted(entries, key=...): Python's sort is stable. *)
RECURSIVE InsertSorted(_, _)
InsertSorted(s, e) ==
    IF s = <<>> THEN <<e>>
    ELSE IF KeyLess(e, Head(s)) THEN <<e>> \o s
    ELSE <<Head(s)>> \o InsertSorted(Tail(s), e)

RECURSIVE SortedEntries(_)
SortedEntries(entries) ==
    IF entries = <<>> THEN <<>>
    ELSE InsertSorted(SortedEntries(SubSeq(entries, 1, Len(entries) - 1)),
                      entries[Len(entries)])

(* task = best["task_id"]: the task id as the entry carries it, an integer,
   a string of digits or a string that is no number. *)
EntryTaskId(t) ==
    [kind |-> CASE t \in {1, 2, 3} -> "digits" [] t \in {4, 8} -> "text"
                [] OTHER -> "int",
     n |-> t]

(* The task_id field of the stored task document of task t. *)
StoredTaskId(t) ==
    [kind |-> CASE t = 3 -> "digits" [] t = 4 -> "text" [] OTHER -> "int",
     n |-> t]

(* self.tasks.query_one({"task_id": id, "formula_alphabetical": formula,
   "orig": {"$exists": True}}): the stored task documents with that task_id,
   value and type.  A stored task document has the formula of the molecule
   and the solvent of the entry made from it. *)
QueryOne(id) == {u \in tasks : StoredTaskId(u) = id}

(* int(task): a ValueError for a string that is no number *)
CanInt(id) == id.kind # "text"

IntOf(id) == [kind |-> "int", n |-> id.n]

(* A slip: no second lookup with int(task) *)
LookupStoredOnly(id) == QueryOne(id)

(* tdoc after the two lookups: the one by the id as stored and, when it found
   nothing, the one by int(task); a ValueError leaves tdoc None. *)
Lookup(id) ==
    IF QueryOne(id) # {} THEN QueryOne(id)
    ELSE IF CanInt(id) THEN QueryOne(IntOf(id))
    ELSE {}

(* The queries process_item makes for one entry *)
Tried(id) ==
    IF QueryOne(id) # {} THEN <<"stored">>
    ELSE IF CanInt(id) THEN <<"stored", "int">>
    ELSE <<"stored">>

(* if tdoc is None: continue *)
TaskFound(task) == Lookup(EntryTaskId(task)) # {}

(* OrbitalDoc.from_task(task_doc, molecule_id=mol.molecule_id): the derived
   document of a task for a molecule. *)
FromTask(task, molecule_id) ==
    [molecule_id |-> molecule_id, solvent |-> Entry(task).solvent,
     task_id |-> task]

(* The loop over sorted_entries: one document for every entry whose task
   document is found. *)
DocsOfSorted(sorted, molecule_id) ==
    LET Test(e) == TaskFound(e.task_id)
        found == SelectSeq(sorted, Test)
    IN [i \in DOMAIN found |-> FromTask(found[i].task_id, molecule_id)]

(* The loop over by_solvent.items() of one molecule *)
DocsOfMol(mol) ==
    LET entries == OrbitalEntries(mol)
        solvs == SolventOrder(entries)
    IN Flatten([i \in DOMAIN solvs |->
                  DocsOfSorted(SortedEntries(BySolvent(entries, solvs[i])),
                               mol.molecule_id)])

(* process_item(items): the orbital documents of a group of molecules *)
ProcessItemDocs(items) == Flatten([i \in DOMAIN items |-> DocsOfMol(items[i])])

(* The entries of one molecule in the order the loops take them *)
LoopOrder(mol) ==
    LET entries == OrbitalEntries(mol)
        solvs == SolventOrder(entries)
    IN Flatten([i \in DOMAIN solvs |->
                  SortedEntries(BySolvent(entries, solvs[i]))])

(* What process_item did for each entry it took: the queries it made on the
   tasks store and whether it appended a document. *)
ProcessItemLookups(items) ==
    Flatten([i \in DOMAIN items |->
               LET es == LoopOrder(items[i])
               IN [k \in DOMAIN es |->
                     [molecule_id |-> items[i].molecule_id,
                      task |-> es[k].task_id,
                      tried |-> Tried(EntryTaskId(es[k].task_id)),
                      doc |-> TaskFound(es[k].task_id)]]])

(* task_doc = TaskDocument of tdoc: a ValidationError for a stored task
   document that does not fit the schema *)
InvalidTask(t) == t = 9

(* process_item(items) raises: the task document of an entry it takes is
   found and does not validate *)
Raises(items) ==
    \E i \in DOMAIN items : \E k \in DOMAIN LoopOrder(items[i]) :
       LET t == LoopOrder(items[i])[k].task_id
       IN TaskFound(t) /\ InvalidTask(t)

(* A slip: process_item deletes the task documents it derived documents from *)
ProcessItemConsuming ==
    /\ queue # <<>>
    /\ ~Raises(Head(queue))
    /\ batch' = Append(batch, [items |-> Head(queue),
                               docs |-> ProcessItemDocs(Head(queue)),
                               lookups |-> ProcessItemLookups(Head(queue))])
    /\ tasks' = tasks \ {ProcessItemDocs(Head(queue))[j].task_id :
                            j \in DOMAIN ProcessItemDocs(Head(queue))}
    /\ queue' = Tail(queue)
    /\ calls' = NoCall
    /\ step' = "process_item"
    /\ UNCHANGED <<molecules, orbitals, query, timestamp, total, chunks,
                   splits, last, pass, mode, edits, run, commits,
                   inputs, outputs, boltztrap>>

ProcessItem ==
    /\ queue # <<>>
    /\ ~Raises(Head(queue))
    /\ batch' = Append(batch, [items |-> Head(queue),
                               docs |-> ProcessItemDocs(Head(queue)),
                               lookups |-> ProcessItemLookups(Head(queue))])
    /\ queue' = Tail(queue)
    /\ calls' = NoCall
    /\ step' = "process_item"
    /\ UNCHANGED <<molecules, tasks, orbitals, query, timestamp, total, chunks,
                   splits, last, pass, mode, edits, run, commits,
                   inputs, outputs, boltztrap>>

(* process_item raises for the group: nothing is caught in process_item, the
   error reaches the caller, which either goes on with the next group (the
   failed one has no result) or ends the run, the results of the chunk under
   way never reaching update_targets. *)
ProcessItemRaises ==
    /\ queue # <<>>
    /\ Raises(Head(queue))
    /\ run' = [run EXCEPT !.failed = @ \cup {Head(queue)[1].formula_alphabetical}]
    /\ \/ /\ queue' = Tail(queue)
          /\ step' = "process_item_raised"
          /\ UNCHANGED batch
       \/ /\ queue' = <<>>
          /\ batch' = <<>>
          /\ step' = "run_ended"
    /\ calls' = NoCall
    /\ UNCHANGED <<molecules, tasks, orbitals, query, timestamp, total, chunks,
                   splits, last, pass, mode, edits, commits,
                   inputs, outputs, boltztrap>>

(***************************************************************************)
(* Load: update_targets.                                                   *)
(***************************************************************************)
(* A slip: the documents are stamped with a time taken in update_targets,
   later than the one get_items captured *)
StampedDocsPerCall(items) ==
    LET docs == Flatten(items)
    IN [i \in DOMAIN docs |->
          [molecule_id |-> docs[i].molecule_id, solvent |-> docs[i].solvent,
           task_id |-> docs[i].task_id, bt |-> timestamp + 1]]

(* docs = list(chain.from_iterable(items)), each stamped with self.timestamp *)
StampedDocs(items) ==
    LET docs == Flatten(items)
    IN [i \in DOMAIN docs |->
          [molecule_id |-> docs[i].molecule_id, solvent |-> docs[i].solvent,
           task_id |-> docs[i].task_id, bt |-> timestamp]]

(* molecule_ids = list({item["molecule_id"] for item in docs}) *)
MoleculeIdsOf(docs) == {docs[i].molecule_id : i \in DOMAIN docs}

(* A slip: remove_docs without the criteria on the key *)
RemoveDocsAll(store, molecule_ids) == {}

(* self.orbitals.remove_docs({self.orbitals.key: {"$in": molecule_ids}}) *)
RemoveDocs(store, molecule_ids) == {d \in store : d.molecule_id \notin molecule_ids}

(* A slip: the task_id among the key fields *)
KeyWithTask(d) == <<d.molecule_id, d.solvent, d.task_id>>

(* key=["molecule_id", "solvent"] *)
UpdateKey(d) == <<d.molecule_id, d.solvent>>

(* The upsert of one document: it replaces one stored document with the same
   key, or is inserted when there is none. *)
Upsert(store, d) ==
    LET same == {x \in store : UpdateKey(x) = UpdateKey(d)}
    IN IF same = {} THEN store \cup {d}
       ELSE (store \ {CHOOSE x \in same : TRUE}) \cup {d}

(* self.orbitals.update(docs=docs, key=[...]): the documents upserted in the
   order of the list. *)
RECURSIVE StoreUpdate(_, _)
StoreUpdate(store, docs) ==
    IF docs = <<>> THEN store
    ELSE StoreUpdate(Upsert(store, Head(docs)), Tail(docs))

(* The branch of update_targets that writes: if len(items) > 0 *)
Writes(items) == Len(items) > 0

(* A slip: the documents are added to the store, nothing being removed or
   replaced *)
UpdateTargetsAppend(store, items) ==
    IF Writes(items) THEN store \cup Range(StampedDocs(items)) ELSE store

(* The orbitals store after update_targets(items) *)
UpdateTargetsStore(store, items) ==
    LET docs == StampedDocs(items)
    IN IF Writes(items)
       THEN StoreUpdate(RemoveDocs(store, MoleculeIdsOf(docs)), docs)
       ELSE store

(* update_targets(items), items being the process_item results of a chunk of
   the groups of get_items: any number of them, none when get_items yielded
   nothing.  A retried chunk is committed whole. *)
UpdateTargets ==
    /\ mode = "retry" => queue = <<>> /\ batch # <<>>
    /\ batch # <<>> \/ (step = "get_items" /\ queue = <<>>)
    /\ LET items == [i \in DOMAIN batch |-> batch[i].docs]
       IN /\ orbitals' = UpdateTargetsStore(orbitals, items)
          /\ IF Writes(items)
             THEN /\ calls' = [log |-> "Updating", ndocs |-> Len(Flatten(items)),
                               ops |-> <<"remove_docs", "update">>]
                  /\ last' = [batch |-> batch, before |-> orbitals,
                              first |-> IF mode = "retry" THEN last.first
                                        ELSE orbitals']
                  /\ pass' = IF mode = "retry" THEN 2 ELSE 1
             ELSE /\ calls' = [log |-> "No items to update", ndocs |-> 0,
                               ops |-> <<>>]
                  /\ UNCHANGED <<last, pass>>
    /\ batch' = <<>>
    /\ mode' = IF queue = <<>> THEN "run" ELSE mode
    /\ chunks' = <<>> /\ splits' = 0
    /\ step' = "update_targets"
    /\ UNCHANGED <<molecules, tasks, query, timestamp, total, queue, edits, run,
                   commits,
                   inputs, outputs, boltztrap>>

(* The chunk committed last is given to process_item and update_targets once
   more, the source stores being as they were. *)
Retry ==
    /\ Idle
    /\ pass = 1
    /\ last.batch # <<>>
    /\ queue' = [i \in DOMAIN last.batch |-> last.batch[i].items]
    /\ mode' = "retry"
    /\ chunks' = <<>> /\ splits' = 0 /\ calls' = NoCall
    /\ step' = "retry"
    /\ UNCHANGED <<molecules, tasks, orbitals, query, timestamp, total, batch,
                   last, pass, edits, run, commits,
                   inputs, outputs, boltztrap>>

(* The run is cancelled between two chunks: the groups get_items has not
   handed out yet are dropped, nothing is half processed.  The next get_items
   call is the restart of the run. *)
Cancel ==
    /\ mode = "run"
    /\ run.state = "running"
    /\ queue # <<>>
    /\ batch = <<>>
    /\ queue' = <<>>
    /\ run' = [run EXCEPT !.state = "cancelled"]
    /\ chunks' = <<>> /\ splits' = 0 /\ calls' = NoCall
    /\ step' = "cancel"
    /\ UNCHANGED <<molecules, tasks, orbitals, query, timestamp, total, batch,
                   last, pass, mode, edits, commits,
                   inputs, outputs, boltztrap>>

(***************************************************************************)
(* The upstream ingestion, between two runs of the builder: a molecule's   *)
(* entries are replaced, a molecule is deprecated or restored, a task      *)
(* document is lost.  One change is made per ingestion, and a get_items    *)
(* call separates two ingestions.                                          *)
(***************************************************************************)
Ingested ==
    /\ edits' = edits + 1
    /\ pass' = 0
    /\ chunks' = <<>> /\ splits' = 0 /\ calls' = NoCall
    /\ step' = "ingest"
    /\ run' = NoRun
    /\ last' = NoLastCommit
    /\ UNCHANGED <<orbitals, query, timestamp, total, queue, batch, mode,
                   commits,
                   inputs, outputs, boltztrap>>

ChangeEntries ==
    /\ Idle /\ edits < MaxEdits /\ step # "ingest"
    /\ \E m \in DOMAIN molecules : \E es \in EntryLists \ {molecules[m].entries} :
          molecules' = [molecules EXCEPT ![m].entries = es]
    /\ UNCHANGED tasks
    /\ Ingested

ToggleDeprecated ==
    /\ Idle /\ edits < MaxEdits /\ step # "ingest"
    /\ \E m \in DOMAIN molecules :
          molecules' = [molecules EXCEPT ![m].deprecated = ~molecules[m].deprecated]
    /\ UNCHANGED tasks
    /\ Ingested

RemoveTask ==
    /\ Idle /\ edits < MaxEdits /\ step # "ingest"
    /\ \E t \in {1, 4} \cap tasks : tasks' = tasks \ {t}
    /\ UNCHANGED molecules
    /\ Ingested

(* The molecule documents of the stores the builder runs on. *)
MoleculeDocs(ids, formulas, deprecations, lists) ==
    [molecule_id : ids, formula_alphabetical : formulas, deprecated : deprecations,
     charge : {0}, spin_multiplicity : {1}, entries : lists]

MoleculeStores(ids, formulas, deprecations, lists) ==
    {f \in [ids -> MoleculeDocs(ids, formulas, deprecations, lists)] :
       \A m \in ids : f[m].molecule_id = m}

Fresh ==
    /\ timestamp = 0
    /\ total = 0
    /\ queue = <<>>
    /\ batch = <<>>
    /\ chunks = <<>>
    /\ splits = 0
    /\ calls = NoCall
    /\ last = NoLastCommit
    /\ pass = 0
    /\ mode = "run"
    /\ edits = 0
    /\ step = "init"
    /\ run = NoRun
    /\ commits = NoCommits

(* No Calculation.from_vasp_files call is made *)
NoCalculation == inputs = None /\ outputs = None

(* No Boltztrap2DosBuilder is at work *)
NoBoltztrap == boltztrap = {}

(* The builder on an empty orbitals store. *)
Init ==
    /\ molecules \in MoleculeStores(MolIds, PipelineFormulas, {FALSE},
                                     InitialEntryLists)
    /\ tasks = TaskIds
    /\ orbitals = {}
    /\ query = NoCriteria
    /\ Fresh
    /\ NoCalculation
    /\ NoBoltztrap

Next ==
    \/ GetItems
    \/ ProcessItem
    \/ UpdateTargets
    \/ Retry
    \/ ChangeEntries
    \/ ToggleDeprecated
    \/ RemoveTask

Spec == Init /\ [][Next]_vars

(***************************************************************************)
(* Discovery alone, on a molecules store of several formulas and an        *)
(* orbitals store left by earlier runs: documents of any of the molecules. *)
(***************************************************************************)
EarlierDoc(m) == [molecule_id |-> m, solvent |-> "vacuum", task_id |-> 3, bt |-> 1]

InitDiscovery ==
    /\ molecules \in MoleculeStores(DiscoveryMolIds, Formulas, BOOLEAN, {<<6, 3>>})
    /\ tasks = TaskIds
    /\ orbitals \in {{EarlierDoc(m) : m \in S} : S \in SUBSET DiscoveryMolIds}
    /\ query \in QueryOptions
    /\ Fresh
    /\ NoCalculation
    /\ NoBoltztrap

NextDiscovery ==
    \/ GetItems
    \/ Prechunk

SpecDiscovery == InitDiscovery /\ [][NextDiscovery]_vars

(***************************************************************************)
(* The four operations of the builder, in any order a caller may make      *)
(* them, on source stores no one else writes.                              *)
(***************************************************************************)
InitOperations ==
    /\ molecules \in MoleculeStores(MolIds, PipelineFormulas, BOOLEAN,
                                     InitialEntryLists)
    /\ tasks = TaskIds
    /\ orbitals = {}
    /\ query = NoCriteria
    /\ Fresh
    /\ NoCalculation
    /\ NoBoltztrap

NextOperations ==
    \/ GetItems
    \/ Prechunk
    \/ ProcessItem
    \/ UpdateTargets

SpecOperations == InitOperations /\ [][NextOperations]_vars

(***************************************************************************)
(* Runs that may be cancelled between chunks and started again, the source *)
(* stores staying as they are.                                             *)
(***************************************************************************)
InitRestart ==
    /\ molecules \in MoleculeStores(DiscoveryMolIds, PipelineFormulas, {FALSE},
                                     InitialEntryLists)
    /\ tasks = TaskIds
    /\ orbitals = {}
    /\ query = NoCriteria
    /\ Fresh
    /\ NoCalculation
    /\ NoBoltztrap

NextRestart ==
    \/ GetItems
    \/ ProcessItem
    \/ UpdateTargets
    \/ Cancel

SpecRestart == InitRestart /\ [][NextRestart]_vars

(***************************************************************************)
(* Runs on stores where the task document of some entries does not         *)
(* validate.                                                               *)
(***************************************************************************)
InitFailure ==
    /\ molecules \in MoleculeStores(MolIds, PipelineFormulas, {FALSE},
                                     {<<1, 2, 3>>, <<9>>, <<3, 9>>})
    /\ tasks = TaskIds
    /\ orbitals = {}
    /\ query = NoCriteria
    /\ Fresh
    /\ NoCalculation
    /\ NoBoltztrap

NextFailure ==
    \/ GetItems
    \/ ProcessItem
    \/ ProcessItemRaises
    \/ UpdateTargets

SpecFailure == InitFailure /\ [][NextFailure]_vars

(***************************************************************************)
(* Two builders commit at the same time: each is in update_targets with    *)
(* the stamped documents of its batch, past the test len(items) > 0.  A    *)
(* remove_docs call is one step on the store; update writes its documents  *)
(* one after the other, each upsert being one step.                        *)
(***************************************************************************)
(* The timestamp each builder captured in its get_items *)
CommitStamp(p) == IF p = "A" THEN 2 ELSE 3

(* The documents process_item returns for one molecule: one per solvent, a
   water one only, or a vacuum one only *)
DocLists == {<<1, 3>>, <<4>>, <<3>>}

(* The documents of a batch on the molecule ids, in the order of the ids, the
   molecules having entries of the same tasks, stamped by update_targets with
   the builder's timestamp *)
CommitDocs(p, ids, ts) ==
    LET order == Ascending(ids)
        docs == Flatten([i \in DOMAIN order |->
                           [k \in DOMAIN ts |-> FromTask(ts[k], order[i])]])
    IN [i \in DOMAIN docs |->
          [molecule_id |-> docs[i].molecule_id, solvent |-> docs[i].solvent,
           task_id |-> docs[i].task_id, bt |-> CommitStamp(p)]]

Batches(p) ==
    {CommitDocs(p, ids, ts) : ids \in (SUBSET MolIds) \ {{}}, ts \in DocLists}

(* The other builder is between its remove_docs and the end of its update *)
OtherUnderWay(p) == \E q \in Committers \ {p} : commits[q].pc = "update"

(* self.orbitals.remove_docs({self.orbitals.key: {"$in": molecule_ids}}) *)
CommitRemove(p) ==
    /\ commits[p].pc = "remove"
    /\ orbitals' = RemoveDocs(orbitals, MoleculeIdsOf(commits[p].docs))
    /\ commits' = [commits EXCEPT
                     ![p].pc = "update", ![p].todo = commits[p].docs,
                     ![p].overlapped = OtherUnderWay(p)]
    /\ step' = "remove_docs"
    /\ UNCHANGED <<molecules, tasks, query, timestamp, total, queue, batch,
                   chunks, splits, calls, last, pass, mode, edits, run,
                   inputs, outputs, boltztrap>>

(* self.orbitals.update(docs=docs, key=["molecule_id", "solvent"]): the next
   document of the list is upserted *)
CommitUpsert(p) ==
    /\ commits[p].pc = "update"
    /\ orbitals' = Upsert(orbitals, Head(commits[p].todo))
    /\ commits' = [commits EXCEPT
                     ![p].todo = Tail(commits[p].todo),
                     ![p].overlapped = commits[p].overlapped \/ OtherUnderWay(p),
                     ![p].pc = IF Tail(commits[p].todo) = <<>> THEN "done"
                               ELSE "update"]
    /\ step' = "update"
    /\ UNCHANGED <<molecules, tasks, query, timestamp, total, queue, batch,
                   chunks, splits, calls, last, pass, mode, edits, run,
                   inputs, outputs, boltztrap>>

InitConcurrent ==
    /\ molecules \in MoleculeStores(MolIds, {"C2H4"}, {FALSE}, {<<1, 2, 3>>})
    /\ tasks = TaskIds
    /\ orbitals \in {{EarlierDoc(m) : m \in S} : S \in SUBSET MolIds}
    /\ query = NoCriteria
    /\ timestamp = 0
    /\ total = 0
    /\ queue = <<>>
    /\ batch = <<>>
    /\ chunks = <<>>
    /\ splits = 0
    /\ calls = NoCall
    /\ last = [batch |-> <<>>, before |-> orbitals, first |-> {}]
    /\ pass = 0
    /\ mode = "run"
    /\ edits = 0
    /\ step = "init"
    /\ NoCalculation
    /\ NoBoltztrap
    /\ run = NoRun
    /\ commits \in {c \in [Committers -> [pc : {"remove"}, docs : Batches("A") \cup Batches("B"),
                                          todo : {<<>>}, overlapped : {FALSE}]] :
                       \A p \in Committers : c[p].docs \in Batches(p)}

NextConcurrent ==
    \/ \E p \in Committers : CommitRemove(p)
    \/ \E p \in Committers : CommitUpsert(p)

SpecConcurrent == InitConcurrent /\ [][NextConcurrent]_vars

(***************************************************************************)
(* One builder commits while another process runs discovery (get_items or  *)
(* prechunk) on the same stores: each discovery call reads the orbitals    *)
(* store as it is when the call is made.                                   *)
(***************************************************************************)
InitWindow ==
    /\ molecules \in MoleculeStores(MolIds, PipelineFormulas, {FALSE}, {<<1, 2, 3>>})
    /\ tasks = TaskIds
    /\ orbitals \in {{EarlierDoc(m) : m \in S} : S \in SUBSET MolIds}
    /\ query = NoCriteria
    /\ timestamp = 0
    /\ total = 0
    /\ queue = <<>>
    /\ batch = <<>>
    /\ chunks = <<>>
    /\ splits = 0
    /\ calls = NoCall
    /\ last = [batch |-> <<>>, before |-> orbitals, first |-> {}]
    /\ pass = 0
    /\ mode = "run"
    /\ edits = 0
    /\ step = "init"
    /\ NoCalculation
    /\ NoBoltztrap
    /\ run = NoRun
    /\ \E docs \in Batches("A") :
          commits = [NoCommits EXCEPT !["A"].pc = "remove", !["A"].docs = docs]

NextWindow ==
    \/ CommitRemove("A")
    \/ CommitUpsert("A")
    \/ GetItems
    \/ Prechunk

SpecWindow == InitWindow /\ [][NextWindow]_vars

(***************************************************************************)
(* Calculation.from_vasp_files and its helpers                             *)
(* (emmet-core/emmet/core/vasp/calculation.py).  The parsed files are      *)
(* given by what the function reads of them: the INCAR tags and the ionic  *)
(* steps of the vasprun, whether its k-points parse in line mode, what the *)
(* OSZICAR holds, and which volumetric files parse.  Strings stand for     *)
(* True, False and the enum members.                                       *)
(***************************************************************************)
(* class VaspObject: the members in the order of their definition *)
VaspObject ==
    <<[name |-> "BANDSTRUCTURE", value |-> "bandstructure"],
      [name |-> "DOS", value |-> "dos"],
      [name |-> "CHGCAR", value |-> "chgcar"],
      [name |-> "AECCAR0", value |-> "aeccar0"],
      [name |-> "AECCAR1", value |-> "aeccar1"],
      [name |-> "AECCAR2", value |-> "aeccar2"],
      [name |-> "TRAJECTORY", value |-> "trajectory"],
      [name |-> "ELFCAR", value |-> "elfcar"],
      [name |-> "WAVECAR", value |-> "wavecar"],
      [name |-> "LOCPOT", value |-> "locpot"],
      [name |-> "OPTIC", value |-> "optic"],
      [name |-> "PROCAR", value |-> "procar"]>>

VaspObjectNames == {VaspObject[k].name : k \in DOMAIN VaspObject}

ValueOf(name) == VaspObject[CHOOSE k \in DOMAIN VaspObject : VaspObject[k].name = name].value

(* class StoreTrajectoryOption *)
StoreTrajectoryOption == {"full", "partial", "no"}

(* The paths given as volumetric_files, relative to dir_name: the member
   names that occur in each path (vasp_object.name in str(volumetric_file)),
   and whether Chgcar.from_file parses the file. *)
NamesIn(file) ==
    CASE file = "CHGCAR" -> {"CHGCAR"}
      [] file = "LOCPOT.gz" -> {"LOCPOT"}
      [] file = "CHGCAR.DOS" -> {"CHGCAR", "DOS"}
      [] file = "TRAJECTORY/CHGCAR" -> {"TRAJECTORY", "CHGCAR"}
      [] file = "AECCAR0.broken" -> {"AECCAR0"}
      [] OTHER -> {}

ParsesAsChgcar(file) == file # "AECCAR0.broken"

VolumetricFiles ==
    {<<>>, <<"CHGCAR", "LOCPOT.gz">>, <<"CHGCAR.DOS", "TRAJECTORY/CHGCAR">>,
     <<"CHGCAR", "AECCAR0.broken">>}

(* store_volumetric_data: None or a tuple of names *)
StoreVolumetricData ==
    {[given |-> FALSE, names |-> <<>>],
     [given |-> TRUE, names |-> <<>>],
     [given |-> TRUE, names |-> <<"chgcar">>],
     [given |-> TRUE, names |-> <<"CHGCAR", "locpot", "dos", "trajectory", "aeccar0">>]}

EmptyDict == [x \in {} |-> None]

(* d[k] = v on a dict *)
Put(d, k, v) == [x \in (DOMAIN d) \cup {k} |-> IF x = k THEN v ELSE d[x]]

(* dict.get(key, default) *)
Get(d, key, default) == IF key \in DOMAIN d THEN d[key] ELSE default

(* _get_output_file_paths(volumetric_files): for every member of VaspObject
   the last file whose path contains the member's name. *)
GetOutputFilePaths(volumetric_files) ==
    LET matched(n) == {i \in DOMAIN volumetric_files : n \in NamesIn(volumetric_files[i])}
        last_of(n) == CHOOSE i \in matched(n) : \A j \in matched(n) : j <= i
    IN [n \in {x \in VaspObjectNames : matched(x) # {}} |->
          volumetric_files[last_of(n)]]

(* A slip: the file types are selected by their enum value only *)
GetVolumetricDataByValue(output_file_paths, store_volumetric_data) ==
    IF ~store_volumetric_data.given \/ Len(store_volumetric_data.names) = 0
    THEN [raised |-> FALSE, data |-> EmptyDict]
    ELSE LET listed == Range(store_volumetric_data.names)
             selected == {n \in DOMAIN output_file_paths : ValueOf(n) \in listed}
         IN IF \E n \in selected : ~ParsesAsChgcar(output_file_paths[n])
            THEN [raised |-> TRUE, data |-> EmptyDict]
            ELSE [raised |-> FALSE,
                  data |-> [n \in selected |->
                              [kind |-> "Chgcar", file |-> output_file_paths[n]]]]

(* _get_volumetric_data(dir_name, output_file_paths, store_volumetric_data):
   raised is TRUE for the ValueError of a file that does not parse. *)
GetVolumetricData(output_file_paths, store_volumetric_data) ==
    IF ~store_volumetric_data.given \/ Len(store_volumetric_data.names) = 0
    THEN [raised |-> FALSE, data |-> EmptyDict]
    ELSE LET listed == Range(store_volumetric_data.names)
             selected == {n \in DOMAIN output_file_paths :
                            ~(n \notin listed /\ ValueOf(n) \notin listed)}
         IN IF \E n \in selected : ~ParsesAsChgcar(output_file_paths[n])
            THEN [raised |-> TRUE, data |-> EmptyDict]
            ELSE [raised |-> FALSE,
                  data |-> [n \in selected |->
                              [kind |-> "Chgcar", file |-> output_file_paths[n]]]]

(* _parse_dos(parse_mode, vasprun) *)
ParseDos(parse_mode, vasprun) ==
    LET nsw == Get(vasprun.incar, "NSW", 0)
    IN IF parse_mode = "True" \/ (parse_mode = "auto" /\ nsw < 1)
       THEN [kind |-> "CompleteDos", projections |-> TRUE]
       ELSE None

(* BSVasprun(...).get_band_structure(line_mode=..., efermi="smart") *)
BandStructure(parse_projected_eigen, line_mode) ==
    [kind |-> "BandStructure", projections |-> parse_projected_eigen,
     line_mode |-> line_mode]

(* A slip: the band structure of "auto" mode is returned whatever NSW is *)
ParseBandstructureAnyNsw(parse_mode, vasprun) ==
    IF parse_mode = "auto"
    THEN IF Get(vasprun.incar, "ICHARG", 0) > 10
         THEN [raised |-> FALSE, bs |-> BandStructure(TRUE, vasprun.line_ok)]
         ELSE [raised |-> FALSE, bs |-> BandStructure(FALSE, FALSE)]
    ELSE IF parse_mode # "False"
    THEN IF parse_mode = "line" /\ ~vasprun.line_ok
         THEN [raised |-> TRUE, bs |-> None]
         ELSE [raised |-> FALSE, bs |-> BandStructure(TRUE, parse_mode = "line")]
    ELSE [raised |-> FALSE, bs |-> None]

(* _parse_bandstructure(parse_mode, vasprun).  get_band_structure in line
   mode raises when the k-points are not those of a line-mode run: "auto"
   catches it and parses as a uniform run, "line" lets it through (raised). *)
ParseBandstructure(parse_mode, vasprun) ==
    IF parse_mode = "auto"
    THEN LET bs == IF Get(vasprun.incar, "ICHARG", 0) > 10
                   THEN BandStructure(TRUE, vasprun.line_ok)
                   ELSE BandStructure(FALSE, FALSE)
         IN IF Get(vasprun.incar, "NSW", 0) <= 1
            THEN [raised |-> FALSE, bs |-> bs]
            ELSE [raised |-> FALSE, bs |-> None]
    ELSE IF parse_mode # "False"
    THEN IF parse_mode = "line" /\ ~vasprun.line_ok
         THEN [raised |-> TRUE, bs |-> None]
         ELSE [raised |-> FALSE, bs |-> BandStructure(TRUE, parse_mode = "line")]
    ELSE [raised |-> FALSE, bs |-> None]

(* The keys of an ionic step of the vasprun, and the step as a dict *)
StepKeys == {"e_fr_energy", "forces", "stress", "electronic_steps", "structure"}

IonicStepOf(i) == [k \in StepKeys |-> <<k, i>>]

(* IonicStep(x).model_dump(exclude=...) *)
ModelDump(x, exclude) == [k \in (DOMAIN x) \ exclude |-> x[k]]

(* CalculationOutput.from_vasp_outputs: the ionic_steps field *)
OutputIonicSteps(vasprun, store_trajectory) ==
    IF store_trajectory = "no"
    THEN [kind |-> "list", items |-> vasprun.ionic_steps]
    ELSE None

(* The frame properties of the trajectory, with the temperatures of the
   OSZICAR when it has them. *)
FrameProperties(vasprun, store_trajectory, oszicar) ==
    LET exclude_from_trajectory ==
            IF store_trajectory = "partial" THEN {"structure", "electronic_steps"}
            ELSE {"structure"}
        dumped == [i \in DOMAIN vasprun.ionic_steps |->
                     ModelDump(vasprun.ionic_steps[i], exclude_from_trajectory)]
    IN IF oszicar = "T"
       THEN [i \in DOMAIN dumped |-> Put(dumped[i], "temperature", <<"T", i>>)]
       ELSE dumped

(* Calculation.from_vasp_files: the parts of the returned pair that depend
   on parse_dos, parse_bandstructure, store_volumetric_data and
   store_trajectory: output.ionic_steps and the VASP objects.  raised names
   the exception when the call raises. *)
FromVaspFiles(in) ==
    LET output_file_paths == GetOutputFilePaths(in.volumetric_files)
        vol == GetVolumetricData(output_file_paths, in.store_volumetric_data)
        dos == ParseDos(in.parse_dos, in.vasprun)
        objects1 == IF dos # None
                    THEN Put(vol.data, "DOS",
                             IF in.strip_dos_projections
                             THEN [kind |-> "Dos", projections |-> FALSE]
                             ELSE dos)
                    ELSE vol.data
        parsed == ParseBandstructure(in.parse_bandstructure, in.vasprun)
        objects2 == IF parsed.bs # None
                    THEN Put(objects1, "BANDSTRUCTURE", parsed.bs)
                    ELSE objects1
        traj == [kind |-> "Trajectory",
                 structures |-> [i \in DOMAIN in.vasprun.ionic_steps |->
                                    in.vasprun.ionic_steps[i]["structure"]],
                 frame_properties |->
                     FrameProperties(in.vasprun, in.store_trajectory, in.oszicar)]
        objects3 == IF in.store_trajectory # "no"
                    THEN Put(objects2, "TRAJECTORY", traj)
                    ELSE objects2
    IN IF vol.raised
       THEN [kind |-> "raised", raised |-> "ValueError"]
       ELSE IF parsed.raised
       THEN [kind |-> "raised", raised |-> "Exception"]
       ELSE [kind |-> "returned",
             ionic_steps |-> OutputIonicSteps(in.vasprun, in.store_trajectory),
             bandstructure |-> parsed.bs,
             vasp_objects |-> objects3]

(* The INCAR of the vasprun: NSW and ICHARG, each set or not *)
Incars ==
    LET nsws == 0..MaxNsw
        ichargs == {1, 11}
    IN {[t \in {} |-> 0]}
       \cup {[t \in {"NSW"} |-> n] : n \in nsws}
       \cup {[t \in {"ICHARG"} |-> c] : c \in ichargs}
       \cup {[t \in {"NSW", "ICHARG"} |-> IF t = "NSW" THEN n ELSE c] :
               n \in nsws, c \in ichargs}

Vaspruns ==
    {[incar |-> inc, ionic_steps |-> [i \in 1..n |-> IonicStepOf(i)], line_ok |-> l] :
       inc \in Incars, n \in 1..MaxSteps, l \in BOOLEAN}

Arguments ==
    [vasprun : Vaspruns,
     parse_dos : {"True", "False", "auto"},
     parse_bandstructure : {"True", "False", "auto", "line"},
     strip_dos_projections : BOOLEAN,
     store_trajectory : StoreTrajectoryOption,
     oszicar : {"none", "T", "ValueError"},
     volumetric_files : VolumetricFiles,
     store_volumetric_data : StoreVolumetricData]

FromVaspFilesCall ==
    /\ inputs # None
    /\ outputs = None
    /\ outputs' = FromVaspFiles(inputs)
    /\ step' = "from_vasp_files"
    /\ UNCHANGED <<molecules, tasks, orbitals, query, timestamp, total, queue,
                   batch, chunks, splits, calls, last, pass, mode, edits, run,
                   commits, inputs, boltztrap>>

InitCalculation ==
    /\ molecules = <<>>
    /\ tasks = {}
    /\ orbitals = {}
    /\ query = NoCriteria
    /\ Fresh
    /\ inputs \in Arguments
    /\ outputs = None
    /\ NoBoltztrap

NextCalculation == FromVaspFilesCall

SpecCalculation == InitCalculation /\ [][NextCalculation]_vars

(***************************************************************************)
(* has_vasp_completed, as Calculation.from_vasp_files and                  *)
(* Calculation.from_vasprun decide it for one vasprun.  The vasprun is     *)
(* given by its parameters (IBRION and NSW, each set or not), its ionic    *)
(* steps, the steps of its md_data (recorded by machine-learned            *)
(* force-field molecular dynamics only) and whether it is converged.       *)
(***************************************************************************)
(* Vasprun.nionic_steps: the number of ionic steps *)
NionicSteps(vasprun) == vasprun.ionic_steps

(* Vasprun.md_n_steps: the length of md_data when there is md_data, the
   number of ionic steps otherwise *)
MdNSteps(vasprun) ==
    IF vasprun.md_data > 0 THEN vasprun.md_data ELSE NionicSteps(vasprun)

(* from_vasp_files: the MD branch compares NSW with vasprun.md_n_steps *)
HasVaspCompletedFromVaspFiles(vasprun) ==
    IF Get(vasprun.parameters, "IBRION", -1) = 0
    THEN IF Get(vasprun.parameters, "NSW", 0) = MdNSteps(vasprun)
         THEN "SUCCESS" ELSE "FAILED"
    ELSE IF vasprun.converged THEN "SUCCESS" ELSE "FAILED"

(* from_vasprun: the MD branch compares NSW with vasprun.nionic_steps *)
HasVaspCompletedFromVasprun(vasprun) ==
    IF Get(vasprun.parameters, "IBRION", -1) = 0
    THEN IF Get(vasprun.parameters, "NSW", 0) = NionicSteps(vasprun)
         THEN "SUCCESS" ELSE "FAILED"
    ELSE IF vasprun.converged THEN "SUCCESS" ELSE "FAILED"

(* vasprun.parameters: IBRION and NSW, each set or not *)
Parameters ==
    LET nsws == 0..MaxNsw
        ibrions == {0, 2}
    IN {[t \in {} |-> 0]}
       \cup {[t \in {"NSW"} |-> n] : n \in nsws}
       \cup {[t \in {"IBRION"} |-> b] : b \in ibrions}
       \cup {[t \in {"NSW", "IBRION"} |-> IF t = "NSW" THEN n ELSE b] :
               n \in nsws, b \in ibrions}

CompletedVaspruns ==
    [parameters : Parameters, ionic_steps : 0..MaxSteps, md_data : 0..MaxSteps,
     converged : BOOLEAN]

NotCalled == [from_vasp_files |-> "not called", from_vasprun |-> "not called"]

FromVaspFilesCompleted ==
    /\ outputs.from_vasp_files = "not called"
    /\ outputs' = [outputs EXCEPT
                     !.from_vasp_files = HasVaspCompletedFromVaspFiles(inputs)]
    /\ step' = "from_vasp_files"
    /\ UNCHANGED <<molecules, tasks, orbitals, query, timestamp, total, queue,
                   batch, chunks, splits, calls, last, pass, mode, edits, run,
                   commits, inputs, boltztrap>>

FromVasprunCompleted ==
    /\ outputs.from_vasprun = "not called"
    /\ outputs' = [outputs EXCEPT
                     !.from_vasprun = HasVaspCompletedFromVasprun(inputs)]
    /\ step' = "from_vasprun"
    /\ UNCHANGED <<molecules, tasks, orbitals, query, timestamp, total, queue,
                   batch, chunks, splits, calls, last, pass, mode, edits, run,
                   commits, inputs, boltztrap>>

InitCompleted ==
    /\ molecules = <<>>
    /\ tasks = {}
    /\ orbitals = {}
    /\ query = NoCriteria
    /\ Fresh
    /\ inputs \in CompletedVaspruns
    /\ outputs = NotCalled
    /\ NoBoltztrap

NextCompleted ==
    \/ FromVaspFilesCompleted
    \/ FromVasprunCompleted

SpecCompleted == InitCompleted /\ [][NextCompleted]_vars

(***************************************************************************)
(* _get_volumetric_data called on its own: any mapping of file types to    *)
(* paths, with any selection.                                              *)
(***************************************************************************)
VolumetricKeys == {"CHGCAR", "LOCPOT", "AECCAR0"}

VolumetricPaths == {"CHGCAR", "LOCPOT.gz", "AECCAR0.broken"}

OutputFilePaths ==
    UNION {[ks -> VolumetricPaths] : ks \in SUBSET VolumetricKeys}

VolumetricSelections ==
    StoreVolumetricData \cup {[given |-> TRUE, names |-> <<"LOCPOT">>]}

VolumetricArguments ==
    [output_file_paths : OutputFilePaths,
     store_volumetric_data : VolumetricSelections]

GetVolumetricDataCall ==
    /\ inputs # None
    /\ outputs = None
    /\ LET res == GetVolumetricData(inputs.output_file_paths,
                                    inputs.store_volumetric_data)
       IN outputs' = IF res.raised
                     THEN [kind |-> "raised", raised |-> "ValueError"]
                     ELSE [kind |-> "returned", data |-> res.data]
    /\ step' = "_get_volumetric_data"
    /\ UNCHANGED <<molecules, tasks, orbitals, query, timestamp, total, queue,
                   batch, chunks, splits, calls, last, pass, mode, edits, run,
                   commits, inputs, boltztrap>>

InitVolumetric ==
    /\ molecules = <<>>
    /\ tasks = {}
    /\ orbitals = {}
    /\ query = NoCriteria
    /\ Fresh
    /\ inputs \in VolumetricArguments
    /\ outputs = None
    /\ NoBoltztrap

NextVolumetric == GetVolumetricDataCall

SpecVolumetric == InitVolumetric /\ [][NextVolumetric]_vars

(***************************************************************************)
(* Boltztrap2DosBuilder.update_targets (emmet/materials/boltztrap2.py).    *)
(* An item is None, an empty dict or a document with a material id and a   *)
(* "cdos" payload.  The module imports neither gridfs, json nor zlib by    *)
(* name: whether the star import of line 7 binds gridfs depends on the     *)
(* installed pymatgen, so it is an input of the call.                      *)
(***************************************************************************)
(* The attributes Boltztrap2DosBuilder.__init__ sets on self, with those of
   maggma's Builder *)
Attributes ==
    {"materials", "boltztrap", "bandstructure_fs", "btz_cdos_fs", "query",
     "sources", "targets", "chunk_size", "logger"}

CdosDoc(m) == [k \in {"material_id", "cdos"} |->
                 IF k = "material_id" THEN <<"id", m>> ELSE <<"cdos", m>>]

BoltztrapItems == {None, EmptyDict, CdosDoc(1), CdosDoc(2)}

(* filter(None, items): the items that are truthy *)
Truthy(item) == item # None /\ item # EmptyDict

FilterNone(items) == SelectSeq(items, Truthy)

(* del doc[key] *)
Del(doc, key) == [k \in (DOMAIN doc) \ {key} |-> doc[k]]

(* The body of the loop over the items for one document, self.bta_fs being
   an attribute with the given value *)
StoredForm(doc, bta_fs) ==
    LET with_oid == Put(Put(doc, "btz_dos_oid", <<"oid", doc["material_id"]>>),
                        "btz_dos_compression", <<"zlib">>)
    IN Del(IF bta_fs THEN with_oid ELSE doc, "cdos")

(* self.boltztrap.update(items): upserts on the key of the store *)
RECURSIVE BoltztrapUpdate(_, _)
BoltztrapUpdate(store, docs) ==
    IF docs = <<>> THEN store
    ELSE LET d == Head(docs)
             kept == {x \in store : x["material_id"] # d["material_id"]}
         IN BoltztrapUpdate(kept \cup {d}, Tail(docs))

(* update_targets(items) on the store: what the call does (returns, or
   raises the named error) and the store after it *)
Boltztrap2UpdateTargets(store, given, btz_cdos_fs, gridfs_bound) ==
    LET items == FilterNone(given)
    IN IF btz_cdos_fs # "None" /\ ~gridfs_bound
       THEN [kind |-> "raised", raised |-> "NameError", log |-> "", store |-> store]
       ELSE IF Len(items) > 0
       THEN IF "bta_fs" \notin Attributes
            THEN [kind |-> "raised", raised |-> "AttributeError",
                  log |-> "Updating", store |-> store]
            ELSE [kind |-> "returned", raised |-> "", log |-> "Updating",
                  store |-> BoltztrapUpdate(store,
                               [i \in DOMAIN items |-> StoredForm(items[i], FALSE)])]
       ELSE [kind |-> "returned", raised |-> "", log |-> "No items to update",
             store |-> store]

RECURSIVE ItemLists(_)
ItemLists(n) ==
    IF n = 0 THEN {<<>>}
    ELSE ItemLists(n - 1)
         \cup {Append(l, x) : l \in {y \in ItemLists(n - 1) : Len(y) = n - 1},
                              x \in BoltztrapItems}

Boltztrap2Arguments ==
    [items : ItemLists(MaxItems),
     btz_cdos_fs : {"None", "btz_cdos_fs"},
     gridfs_bound : BOOLEAN,
     store : {{}, {Del(CdosDoc(1), "cdos")}}]

Boltztrap2UpdateTargetsCall ==
    /\ step = "init"
    /\ LET res == Boltztrap2UpdateTargets(boltztrap, inputs.items,
                                          inputs.btz_cdos_fs, inputs.gridfs_bound)
       IN /\ boltztrap' = res.store
          /\ outputs' = [kind |-> res.kind, raised |-> res.raised, log |-> res.log]
    /\ step' = "boltztrap2_update_targets"
    /\ UNCHANGED <<molecules, tasks, orbitals, query, timestamp, total, queue,
                   batch, chunks, splits, calls, last, pass, mode, edits, run,
                   commits, inputs>>

InitBoltztrap ==
    /\ molecules = <<>>
    /\ tasks = {}
    /\ orbitals = {}
    /\ query = NoCriteria
    /\ Fresh
    /\ inputs \in Boltztrap2Arguments
    /\ outputs = None
    /\ boltztrap = inputs.store

NextBoltztrap == Boltztrap2UpdateTargetsCall

SpecBoltztrap == InitBoltztrap /\ [][NextBoltztrap]_vars

(***************************************************************************)
(* Properties.                                                             *)
(***************************************************************************)
(* update_targets has just committed a batch through its writing branch *)
JustCommitted == step = "update_targets" /\ calls.log = "Updating"

(* The documents of the batch committed last, as process_item returned them *)
LastDocs == Flatten([i \in DOMAIN last.batch |-> last.batch[i].docs])

(* A store's documents without the _bt field *)
StripBt(store) ==
    {[molecule_id |-> d.molecule_id, solvent |-> d.solvent, task_id |-> d.task_id] :
       d \in store}

SameKey(d1, d2) == d1.molecule_id = d2.molecule_id /\ d1.solvent = d2.solvent

(* The eligible entries of a molecule for a solvent, in the entries' order *)
EligibleOf(mol, solvent) == BySolvent(OrbitalEntries(mol), solvent)

AllFound(entries) == \A k \in DOMAIN entries : TaskFound(entries[k].task_id)

(* entries[i] has the minimum ranking key and is the first entry having it *)
IsBest(entries, i) ==
    /\ \A j \in DOMAIN entries : ~KeyLess(entries[j], entries[i])
    /\ \A j \in 1..(i - 1) : KeyLess(entries[i], entries[j])

GroupFormula(items) == items[1].formula_alphabetical

(* C1: after any sequence of update_targets commits, starting from an
   orbitals store that satisfies it, the orbitals store holds at most one
   document for every (molecule_id, solvent) pair. *)
C1_AtMostOnePerKey ==
    \A d1, d2 \in orbitals : SameKey(d1, d2) => d1 = d2

(* A commit whose batch holds two documents of one key, over a store that
   already held a document of that key. *)
C1_Witness ==
    /\ JustCommitted
    /\ \E i, j \in DOMAIN LastDocs :
          /\ i < j
          /\ SameKey(LastDocs[i], LastDocs[j])
          /\ \E d \in last.before : SameKey(d, LastDocs[i])
          /\ \E d \in orbitals : SameKey(d, LastDocs[i])

(* C2: for every molecule of a committed group and every solvent, the
   document in the orbitals store after process_item and update_targets is
   the one built from the eligible entry with the minimum ranking key
   (theory score, then energy), the first such entry of the molecule's
   entries list winning a tie.  (Stated for entries whose tasks are all
   found.) *)
C2_BestEntryStored ==
    JustCommitted =>
      \A i \in DOMAIN last.batch : \A k \in DOMAIN last.batch[i].items :
        \A solvent \in Solvents :
          LET mol == last.batch[i].items[k]
              es == EligibleOf(mol, solvent)
              stored == {d \in orbitals : d.molecule_id = mol.molecule_id
                                          /\ d.solvent = solvent}
          IN (es # <<>> /\ AllFound(es)) =>
               /\ stored # {}
               /\ \A d \in stored : \E b \in DOMAIN es :
                     IsBest(es, b) /\ d.task_id = es[b].task_id

(* C3: process_item returns exactly one document per (molecule, solvent)
   partition that is non-empty after filtering, all task lookups succeeding;
   for the entries 1 (water), 2 (water, same key) and 3 (vacuum) it returns
   two documents, the water one from entry 1 and the vacuum one from entry 3. *)
C3_OnePerPartition ==
    \A i \in DOMAIN batch :
      LET items == batch[i].items
          docs == batch[i].docs
          parts == {p \in (DOMAIN items) \X Solvents :
                      EligibleOf(items[p[1]], p[2]) # <<>>}
      IN (\A k \in DOMAIN items : AllFound(OrbitalEntries(items[k]))) =>
           /\ Len(docs) = Cardinality(parts)
           /\ (Len(items) = 1 /\ items[1].entries = <<1, 2, 3>>) =>
                 [j \in DOMAIN docs |-> docs[j].task_id] = <<1, 3>>

(* C4: after update_targets commits a non-empty batch, for every molecule_id
   of the batch the documents of the orbitals store with that molecule_id are
   exactly the documents the batch holds for it (those that were there before
   are gone), and exactly one document per solvent matches the new winner. *)
C4_StoreHoldsBatch ==
    (JustCommitted /\ calls.ndocs > 0) =>
      \A id \in MoleculeIdsOf(LastDocs) :
        LET mine == {i \in DOMAIN LastDocs : LastDocs[i].molecule_id = id}
            stored == {d \in orbitals : d.molecule_id = id}
        IN /\ StripBt(stored) = {LastDocs[i] : i \in mine}
           /\ Cardinality(stored) = Cardinality(mine)
           /\ \A solvent \in {LastDocs[i].solvent : i \in mine} :
                 Cardinality({d \in stored : d.solvent = solvent}) = 1

(* The pending formulas as the specification states them: the formulas of the
   molecules that match the builder's query with deprecated = False and whose
   id is not a molecule_id of the orbitals store. *)
PendingFormulas ==
    LET done == {d.molecule_id : d \in orbitals}
        open == {m \in DOMAIN molecules :
                   /\ molecules[m].formula_alphabetical \in query.formulas
                   /\ molecules[m].deprecated = FALSE
                   /\ m \notin done}
    IN {molecules[m].formula_alphabetical : m \in open}

ChunkedFormulas == UNION {Range(chunks[i]) : i \in DOMAIN chunks}

(* C5: the formulas for which get_items yields a group, and which prechunk
   distributes, are exactly the pending formulas. *)
C5_PendingSet ==
    /\ step = "get_items" =>
         /\ {GroupFormula(queue[i]) : i \in DOMAIN queue} = PendingFormulas
         /\ Len(queue) = Cardinality(PendingFormulas)
    /\ step = "prechunk" => ChunkedFormulas = PendingFormulas

(* get_items has yielded two groups although one molecule is processed and
   another one is deprecated. *)
C5_Witness ==
    /\ step = "get_items"
    /\ Len(queue) = 2
    /\ orbitals # {}
    /\ \E m \in DOMAIN molecules : molecules[m].deprecated

(* Every molecule of a committed group has a document in the batch *)
EveryMoleculeHasDoc(g) ==
    \A k \in DOMAIN g.items : \E j \in DOMAIN g.docs :
       g.docs[j].molecule_id = g.items[k].molecule_id

(* C6 as stated: after process_item and update_targets have completed for a
   group yielded by get_items, the source stores unchanged, the group is not
   in the pending set of the next get_items or prechunk call. *)
C6_CommittedNotPending ==
    pass >= 1 =>
      \A i \in DOMAIN last.batch :
         GroupFormula(last.batch[i].items) \notin ToProcessForms

(* C6, amended: the group is not in the next pending set when process_item
   returned at least one document for every molecule of the group. *)
C6_CommittedWithDocsNotPending ==
    pass >= 1 =>
      \A i \in DOMAIN last.batch :
         EveryMoleculeHasDoc(last.batch[i]) =>
            GroupFormula(last.batch[i].items) \notin ToProcessForms

(* A group of two molecules, each with a document, has been committed. *)
C6_Witness ==
    /\ pass >= 1
    /\ \E i \in DOMAIN last.batch :
          /\ Len(last.batch[i].items) = 2
          /\ EveryMoleculeHasDoc(last.batch[i])

(* C7: for every number_splits >= 1 the formula lists yielded by prechunk are
   pairwise disjoint and their union is the set of pending formulas. *)
C7_ChunkCoverage ==
    step = "prechunk" =>
      /\ \A i, j \in DOMAIN chunks :
            i # j => Range(chunks[i]) \cap Range(chunks[j]) = {}
      /\ ChunkedFormulas = PendingFormulas

(* Three pending formulas in two chunks, the second one shorter. *)
C7_Witness ==
    /\ step = "prechunk"
    /\ splits = 2
    /\ Len(chunks) = 2
    /\ Len(chunks[1]) = 2
    /\ Len(chunks[2]) = 1

(* C8: process_item and update_targets run twice on the same groups, the
   tasks and molecules stores unchanged in between, leave the orbitals store
   with the same documents after the second pass as after the first, apart
   from _bt. *)
C8_Idempotent ==
    pass = 2 =>
      /\ StripBt(orbitals) = StripBt(last.first)
      /\ Cardinality(orbitals) = Cardinality(last.first)

(* The second pass ran under a later timestamp and restamped the documents. *)
C8_Witness ==
    /\ pass = 2
    /\ step = "update_targets"
    /\ orbitals # {}
    /\ orbitals # last.first

(* No molecule is pending: every matching molecule that is not deprecated has
   its id in the orbitals store (or none matches). *)
NoPending ==
    \A m \in DOMAIN molecules :
       (molecules[m].formula_alphabetical \in query.formulas
          /\ ~molecules[m].deprecated) =>
            \E d \in orbitals : d.molecule_id = m

(* C9: when no molecule is pending, get_items yields zero groups and prechunk
   yields zero chunks for every number_splits >= 1. *)
C9_NothingPending ==
    NoPending =>
      /\ step = "get_items" => queue = <<>> /\ total = 0
      /\ step = "prechunk" => chunks = <<>>

(* prechunk ran with several splits while every matching molecule had been
   processed. *)
C9_Witness ==
    /\ NoPending
    /\ step = "prechunk"
    /\ splits > 1
    /\ \E m \in DOMAIN molecules :
          molecules[m].formula_alphabetical \in query.formulas
            /\ ~molecules[m].deprecated

(* C10: when the batch given to update_targets holds no document (an empty
   list, or a list of empty lists), update_targets calls neither remove_docs
   nor update on the orbitals store and leaves the store unchanged. *)
C10_EmptyBatchNoOp ==
    (step = "update_targets" /\ calls.ndocs = 0) =>
      /\ calls.ops = <<>>
      /\ calls.log = "Updating" => orbitals = last.before

(* The entry lacks the required sub-result: its output nbo is None, or
   neither run_nbo6 nor nbo_external is set *)
Lacking(e) == ~e.nbo \/ (~e.run_nbo6 /\ ~e.nbo_external)

(* Every molecule of the group has one entry only, and that entry lacks the
   sub-result *)
OnlyEntryLacks(items) ==
    \A k \in DOMAIN items :
       /\ Len(items[k].entries) = 1
       /\ Lacking(Entry(items[k].entries[1]))

DocsOfGroup(store, items) ==
    {d \in store : \E k \in DOMAIN items : d.molecule_id = items[k].molecule_id}

(* C11: when the only entry of a group lacks the required sub-result,
   process_item returns zero documents for the group, no step writes (or
   removes) a document of the group in the orbitals store, and every
   get_items call made while the group has no stored document yields the
   group again. *)
C11_LackingGroupStaysPending ==
    /\ [](\A i \in DOMAIN batch :
            OnlyEntryLacks(batch[i].items) => batch[i].docs = <<>>)
    /\ [][orbitals' # orbitals =>
            \A f \in PipelineFormulas :
               (GroupOf(f) # <<>> /\ OnlyEntryLacks(GroupOf(f))) =>
                  DocsOfGroup(orbitals', GroupOf(f)) = DocsOfGroup(orbitals, GroupOf(f))]_vars
    /\ [](step = "get_items" =>
            \A f \in PipelineFormulas :
               (/\ GroupOf(f) # <<>>
                /\ OnlyEntryLacks(GroupOf(f))
                /\ DocsOfGroup(orbitals, GroupOf(f)) = {}) =>
                  \E i \in DOMAIN queue : queue[i] = GroupOf(f))

(* The second get_items call yields a group again whose only entry has no
   NBO output and which the first run processed and committed with no
   document, while another group was written. *)
C11_Witness ==
    /\ step = "get_items"
    /\ timestamp = 2
    /\ edits = 0
    /\ orbitals # {}
    /\ \E i \in DOMAIN last.batch :
          /\ Len(last.batch[i].items) = 1
          /\ OnlyEntryLacks(last.batch[i].items)
          /\ last.batch[i].docs = <<>>
          /\ \E j \in DOMAIN queue : queue[j] = last.batch[i].items

(* The tasks store holds a document whose task_id is the given id *)
Stored(id) == \E u \in tasks : StoredTaskId(u) = id

(* C12: for every entry process_item takes, the task is looked up first by
   the task_id as stored; the lookup by int(task_id) is made only when the
   first one returned nothing (and the id converts); a document is produced
   for the entry exactly when one of the lookups made returns a task
   document; otherwise the entry is skipped and process_item still returns. *)
C12_LookupFallback ==
    \A i \in DOMAIN batch :
       LET b == batch[i]
           made == SelectSeq(b.lookups, LAMBDA r : r.doc)
       IN /\ \A k \in DOMAIN b.lookups :
               LET r == b.lookups[k]
                   id == EntryTaskId(r.task)
               IN /\ r.tried[1] = "stored"
                  /\ Len(r.tried) <= 2
                  /\ Len(r.tried) = 2 =>
                        r.tried[2] = "int" /\ ~Stored(id) /\ id.kind # "text"
                  /\ (~Stored(id) /\ id.kind # "text") => Len(r.tried) = 2
                  /\ r.doc <=> \/ Stored(id)
                               \/ id.kind # "text" /\ Stored([kind |-> "int", n |-> id.n])
          /\ [k \in DOMAIN b.docs |-> <<b.docs[k].molecule_id, b.docs[k].task_id>>]
               = [k \in DOMAIN made |-> <<made[k].molecule_id, made[k].task>>]

(* process_item returned for a group with an entry found by its id as stored,
   one found only by int(task_id), and one skipped: both lookups returned
   nothing, or the id is no number. *)
C12_Witness ==
    \E i \in DOMAIN batch :
       /\ \E k \in DOMAIN batch[i].lookups :
             batch[i].lookups[k].tried = <<"stored">> /\ batch[i].lookups[k].doc
       /\ \E k \in DOMAIN batch[i].lookups :
             batch[i].lookups[k].tried = <<"stored", "int">> /\ batch[i].lookups[k].doc
       /\ \E k \in DOMAIN batch[i].lookups : ~batch[i].lookups[k].doc

(* C13: every document a step writes to the orbitals store carries the
   timestamp get_items captured for the run, self.timestamp changes only when
   get_items starts a run, and so all the documents written during one run
   carry the same _bt. *)
C13_OneTimestampPerRun ==
    /\ [](\A d \in orbitals : d.bt \in 1..timestamp)
    /\ [][/\ \A d \in orbitals' \ orbitals : d.bt = timestamp /\ timestamp' = timestamp
          /\ timestamp' # timestamp => step' = "get_items"]_vars

(* The second update_targets call of a run has written documents next to
   those the first call of that run wrote. *)
C13_Witness ==
    /\ JustCommitted
    /\ \E d \in last.before \cap orbitals : d.bt = timestamp
    /\ \E d \in orbitals \ last.before : d.bt = timestamp

(* One update_targets call alone: remove_docs, then the upserts *)
SerialCommit(store, docs) == StoreUpdate(RemoveDocs(store, MoleculeIdsOf(docs)), docs)

CommitIds(p) == MoleculeIdsOf(commits[p].docs)

DisjointCommits == CommitIds("A") \cap CommitIds("B") = {}

BothDone == \A p \in Committers : commits[p].pc = "done"

(* The store after the two commits run one after the other, p first *)
SerialFirst(p) ==
    LET q == CHOOSE x \in Committers : x # p
    IN SerialCommit(SerialCommit(last.before, commits[p].docs), commits[q].docs)

DocsWithIds(store, ids) == {d \in store : d.molecule_id \in ids}

(* C14: when the batches of two concurrent update_targets commits touch
   disjoint sets of molecule ids, then however their remove_docs and update
   steps interleave, once a commit is done the store holds for its molecule
   ids what the commit alone would have left, whatever the other does, and
   once both are done the store is the one either serial order gives. *)
C14_DisjointCommitsSerializable ==
    DisjointCommits =>
      /\ \A p \in Committers :
            commits[p].pc = "done" =>
               DocsWithIds(orbitals, CommitIds(p))
                 = DocsWithIds(SerialCommit(last.before, commits[p].docs), CommitIds(p))
      /\ BothDone =>
            orbitals = SerialFirst("A") /\ orbitals = SerialFirst("B")

(* Both commits are done, on different molecules, over a store that held
   documents of both; each took a step while the other was under way. *)
C14_Witness ==
    /\ DisjointCommits
    /\ BothDone
    /\ \A p \in Committers : commits[p].overlapped
    /\ \A p \in Committers : DocsWithIds(last.before, CommitIds(p)) # {}
    /\ \A p \in Committers : \E d \in orbitals : d.bt = CommitStamp(p)
    /\ step = "update"

SharedIds == CommitIds("A") \cap CommitIds("B")

(* Both commits are done and the store is that of neither serial order *)
NonSerial ==
    /\ BothDone
    /\ orbitals # SerialFirst("A")
    /\ orbitals # SerialFirst("B")

(* The documents a commit alone leaves for a molecule id *)
OwnDocs(p, m) == DocsWithIds(SerialCommit({}, commits[p].docs), {m})

(* For molecule id m the store mixes documents of both commits, or holds
   documents of one commit only and not all of them *)
LostUpdate(m) ==
    LET stored == DocsWithIds(orbitals, {m})
    IN \/ \A p \in Committers : \E d \in stored : d.bt = CommitStamp(p)
       \/ \E p \in Committers : stored # OwnDocs(p, m) /\ stored \subseteq OwnDocs(p, m)

(* C15: two concurrent update_targets commits leave a store that differs
   from the result of both serial orders only when they touch a common
   molecule id; every common molecule id then shows a lost update or holds
   the documents of one of the commits (not the same commit for all), and
   the documents of the other molecule ids are as a serial order leaves
   them; such an interleaving exists (the witness). *)
C15_SameIdLostUpdate ==
    NonSerial =>
      /\ SharedIds # {}
      /\ \/ \E m \in SharedIds : LostUpdate(m)
         \/ \A p \in Committers : \E m \in SharedIds :
               DocsWithIds(orbitals, {m}) # OwnDocs(p, m)
      /\ \A m \in SharedIds :
            \/ LostUpdate(m)
            \/ \E p \in Committers : DocsWithIds(orbitals, {m}) = OwnDocs(p, m)
      /\ \A p \in Committers :
            DocsWithIds(orbitals, CommitIds(p) \ SharedIds)
              = DocsWithIds(SerialCommit(last.before, commits[p].docs),
                            CommitIds(p) \ SharedIds)

(* Two commits on the same molecule id are done and the store, which mixes
   documents of both, is the result of neither serial order. *)
C15_Witness ==
    /\ NonSerial
    /\ CommitIds("A") = CommitIds("B")
    /\ \E m \in SharedIds :
          \A p \in Committers :
             \E d \in orbitals : d.molecule_id = m /\ d.bt = CommitStamp(p)

QueueFormulas == {GroupFormula(queue[i]) : i \in DOMAIN queue}

(* The store a run that is not interrupted leaves, begun on the given store
   with the given pending formulas *)
Uninterrupted(store, forms) ==
    LET order == CHOOSE o \in Perms(forms) : TRUE
    IN UpdateTargetsStore(store,
          [i \in DOMAIN order |-> ProcessItemDocs(GroupOf(order[i]))])

(* The formulas of the molecules that got a document since the run began *)
FormulasWritten ==
    {molecules[d.molecule_id].formula_alphabetical : d \in orbitals \ run.store}

(* The formulas whose molecules to process all have a document *)
FormulasDone ==
    {f \in run.forms : \A k \in DOMAIN GroupOf(f) :
                          GroupOf(f)[k].molecule_id \in ProcessedDocs}

(* C16 as stated: when a run was cancelled between chunks and the builder
   runs again on unchanged sources, get_items yields the original pending
   formulas minus those of the groups whose commits produced documents, and
   after the second run the store is, apart from _bt, the one an
   uninterrupted run would have left. *)
C16_RestartAfterCancel ==
    run.state = "resumed" =>
      /\ step = "get_items" => QueueFormulas = run.forms \ FormulasWritten
      /\ Idle => StripBt(orbitals) = StripBt(Uninterrupted(run.store, run.forms))

(* C16, amended: get_items yields the original pending formulas minus those
   of the groups whose commits produced a document for every molecule of the
   group. *)
C16_RestartAfterCancelAllDocs ==
    run.state = "resumed" =>
      /\ step = "get_items" => QueueFormulas = run.forms \ FormulasDone
      /\ Idle => StripBt(orbitals) = StripBt(Uninterrupted(run.store, run.forms))

(* The restarted run is complete; the store holds documents committed before
   the cancellation and documents of the restarted run. *)
C16_Witness ==
    /\ run.state = "resumed"
    /\ Idle
    /\ step = "update_targets"
    /\ \E d \in orbitals : d.bt = timestamp
    /\ \E d \in orbitals \ run.store : d.bt < timestamp

(* C17: a failure while processing one group fails that group only: when the
   run is over, the other groups of the run have been processed and committed
   (the store is the one a run on those groups alone leaves), the failed
   group has no document, and the next get_items call yields it. *)
C17_FailureIsolated ==
    /\ (Idle /\ run.failed # {}) =>
          /\ StripBt(orbitals)
               = StripBt(Uninterrupted(run.store,
                                       {f \in run.forms : ~Raises(GroupOf(f))}))
          /\ \A f \in run.failed : DocsOfGroup(orbitals, GroupOf(f)) = {}
    /\ step = "get_items" => run.prevFailed \subseteq QueueFormulas

Returned == outputs.kind = "returned"

(* C18 as stated: when store_trajectory is FULL or PARTIAL the returned
   output.ionic_steps is None and the returned objects hold a TRAJECTORY
   whose frame properties never contain the structure (nor, for PARTIAL, the
   electronic steps); when store_trajectory is NO, output.ionic_steps holds
   the ionic steps of the vasprun and no TRAJECTORY object is returned. *)
C18_TrajectoryOrIonicSteps ==
    Returned =>
      /\ inputs.store_trajectory \in {"full", "partial"} =>
            /\ outputs.ionic_steps = None
            /\ "TRAJECTORY" \in DOMAIN outputs.vasp_objects
            /\ outputs.vasp_objects["TRAJECTORY"].kind = "Trajectory"
            /\ \A i \in DOMAIN outputs.vasp_objects["TRAJECTORY"].frame_properties :
                  LET keys == DOMAIN outputs.vasp_objects["TRAJECTORY"].frame_properties[i]
                  IN /\ "structure" \notin keys
                     /\ inputs.store_trajectory = "partial" =>
                           "electronic_steps" \notin keys
      /\ inputs.store_trajectory = "no" =>
            /\ outputs.ionic_steps
                 = [kind |-> "list", items |-> inputs.vasprun.ionic_steps]
            /\ "TRAJECTORY" \notin DOMAIN outputs.vasp_objects

(* C19: from_vasp_files returns a DOS object among its VASP objects exactly
   when parse_dos is True, or parse_dos is "auto" and NSW is 0 (0 when the
   INCAR does not set it); with parse_dos False no DOS object is returned. *)
C19_DosExactlyWhenAsked ==
    Returned =>
      ("DOS" \in DOMAIN outputs.vasp_objects
         <=> \/ inputs.parse_dos = "True"
             \/ /\ inputs.parse_dos = "auto"
                /\ Get(inputs.vasprun.incar, "NSW", 0) = 0)

(* C20: _parse_bandstructure returns no band structure when
   parse_bandstructure is False; with "auto" it parses with projections only
   for NSCF calculations (ICHARG > 10) and returns the band structure only
   when NSW <= 1; with "line" or True what it returns is a band structure
   parsed with projections, in line mode exactly when the mode is "line". *)
C20_BandstructureModes ==
    Returned =>
      LET bs == outputs.bandstructure
          parse_mode == inputs.parse_bandstructure
          nsw == Get(inputs.vasprun.incar, "NSW", 0)
          icharg == Get(inputs.vasprun.incar, "ICHARG", 0)
      IN /\ parse_mode = "False" => bs = None
         /\ parse_mode = "auto" =>
               /\ bs # None <=> nsw <= 1
               /\ bs # None => (bs.projections <=> icharg > 10)
         /\ parse_mode \in {"line", "True"} =>
               /\ bs # None
               /\ bs.projections
               /\ bs.line_mode <=> parse_mode = "line"

(* An "auto" call on an NSCF run with one ionic step returned a band
   structure with projections. *)
C20_Witness ==
    /\ Returned
    /\ inputs.parse_bandstructure = "auto"
    /\ Get(inputs.vasprun.incar, "ICHARG", 0) > 10
    /\ Get(inputs.vasprun.incar, "NSW", 0) = 1
    /\ outputs.bandstructure # None
    /\ outputs.bandstructure.projections

(* The file types of the mapping whose enum name or enum value is listed *)
Listed(ofp, svd) ==
    {n \in DOMAIN ofp :
       \E k \in DOMAIN svd.names : svd.names[k] = n \/ svd.names[k] = ValueOf(n)}

(* C21: _get_volumetric_data returns an empty mapping when
   store_volumetric_data is None or empty; otherwise it loads exactly the
   file types of output_file_paths whose enum name or enum value is listed,
   and when a selected file fails to parse it raises ValueError, returning
   nothing. *)
C21_VolumetricSelection ==
    step = "_get_volumetric_data" =>
       LET ofp == inputs.output_file_paths
           svd == inputs.store_volumetric_data
       IN IF ~svd.given \/ svd.names = <<>>
          THEN outputs = [kind |-> "returned", data |-> EmptyDict]
          ELSE IF \E n \in Listed(ofp, svd) : ~ParsesAsChgcar(ofp[n])
          THEN outputs = [kind |-> "raised", raised |-> "ValueError"]
          ELSE /\ outputs.kind = "returned"
               /\ DOMAIN outputs.data = Listed(ofp, svd)
               /\ \A n \in Listed(ofp, svd) :
                     outputs.data[n] = [kind |-> "Chgcar", file |-> ofp[n]]

(* A call that loaded a file type listed by its enum name only, and left
   out a file type of the mapping that is not listed and does not parse *)
C21_Witness ==
    /\ step = "_get_volumetric_data"
    /\ outputs.kind = "returned"
    /\ "LOCPOT" \in DOMAIN outputs.data
    /\ "locpot" \notin Range(inputs.store_volumetric_data.names)
    /\ \E n \in DOMAIN inputs.output_file_paths :
          /\ n \notin DOMAIN outputs.data
          /\ ~ParsesAsChgcar(inputs.output_file_paths[n])


(* The formulas carried by a molecule that is not deprecated *)
LiveFormulas == {molecules[m].formula_alphabetical :
                   m \in {x \in DOMAIN molecules : ~molecules[x].deprecated}}

(* C22: discovery only considers molecules with deprecated = False, whatever
   the builder's query says about deprecated: no group yielded by get_items
   holds a deprecated molecule, and no formula carried only by deprecated
   molecules is pending, in get_items or in a chunk of prechunk. *)
C22_DeprecatedNeverDiscovered ==
    /\ \A d \in AllMols : ~d.deprecated
    /\ ToProcessForms \subseteq LiveFormulas
    /\ step = "get_items" =>
          \A i \in DOMAIN queue :
             /\ \A k \in DOMAIN queue[i] : ~queue[i][k].deprecated
             /\ queue[i] # <<>> => queue[i][1].formula_alphabetical \in LiveFormulas
    /\ step = "prechunk" =>
          \A i \in DOMAIN chunks : Range(chunks[i]) \subseteq LiveFormulas

(* get_items yielded a group on a builder whose query asks for deprecated
   molecules, the store holding a deprecated molecule that is not processed *)
C22_Witness ==
    /\ step = "get_items"
    /\ query.deprecated = "true"
    /\ queue # <<>>
    /\ \E m \in DOMAIN molecules :
          /\ molecules[m].deprecated
          /\ m \notin ProcessedDocs
          /\ molecules[m].formula_alphabetical \notin LiveFormulas


(* The entry may be a candidate of the molecule: its charge and spin are the
   molecule's, its NBO output is present, and it was run with NBO6 or an
   external NBO *)
Eligible(e, mol) ==
    /\ e.charge = mol.charge
    /\ e.spin_multiplicity = mol.spin_multiplicity
    /\ e.nbo
    /\ e.run_nbo6 \/ e.nbo_external

EligibleEntries(mol) ==
    {e \in {Entry(mol.entries[k]) : k \in DOMAIN mol.entries} : Eligible(e, mol)}

(* C23: every document process_item returns derives from an eligible entry
   of its molecule; a group with ineligible entries is processed without an
   error, and a solvent for which a molecule has no eligible entry gets no
   document for that molecule. *)
C23_OnlyEligibleEntries ==
    /\ \A i \in DOMAIN batch :
          LET items == batch[i].items
              docs == batch[i].docs
          IN /\ \A j \in DOMAIN docs :
                   \E k \in DOMAIN items :
                      /\ items[k].molecule_id = docs[j].molecule_id
                      /\ \E e \in EligibleEntries(items[k]) :
                            /\ e.task_id = docs[j].task_id
                            /\ e.solvent = docs[j].solvent
             /\ \A k \in DOMAIN items : \A solv \in Solvents :
                   (~\E e \in EligibleEntries(items[k]) : e.solvent = solv) =>
                      ~\E j \in DOMAIN docs :
                          /\ docs[j].molecule_id = items[k].molecule_id
                          /\ docs[j].solvent = solv
    /\ \A i \in DOMAIN queue :
          Raises(queue[i]) =>
             \E k \in DOMAIN queue[i] : \E e \in EligibleEntries(queue[i][k]) :
                InvalidTask(e.task_id)

(* process_item returned for a molecule with an entry of another charge in
   one solvent and an eligible entry in another: a document for the second
   solvent only *)
C23_Witness ==
    /\ step = "process_item"
    /\ \E i \in DOMAIN batch : \E k \in DOMAIN batch[i].items :
          LET mol == batch[i].items[k]
          IN /\ \E t \in Range(mol.entries) :
                   /\ ~Eligible(Entry(t), mol)
                   /\ ~\E e \in EligibleEntries(mol) : e.solvent = Entry(t).solvent
             /\ \E j \in DOMAIN batch[i].docs :
                   batch[i].docs[j].molecule_id = mol.molecule_id


(* C24: no operation of the builder inserts, changes or deletes a document
   of the tasks or molecules stores, and get_items, prechunk and
   process_item leave the documents of the orbitals store as they are:
   update_targets alone mutates documents, in the orbitals store only. *)
C24_OnlyUpdateTargetsWrites ==
    [][/\ step' \in {"get_items", "prechunk", "process_item", "update_targets"} =>
             molecules' = molecules /\ tasks' = tasks
       /\ step' \in {"get_items", "prechunk", "process_item"} =>
             orbitals' = orbitals
       /\ orbitals' # orbitals => step' = "update_targets"]_vars

(* A second run has processed a group, the first one having written
   documents: the stores are as the commit left them *)
C24_Witness ==
    /\ step = "process_item"
    /\ timestamp = 2
    /\ orbitals # {}
    /\ orbitals = last.first
    /\ batch # <<>>
    /\ batch[1].docs # <<>>


(* C25: for every number_splits >= 1 and pending set P every chunk of
   prechunk(number_splits) holds at most ceil(|P| / number_splits) formulas
   (the least n with n * number_splits >= |P|), and prechunk yields at most
   number_splits chunks. *)
C25_ChunkSizes ==
    step = "prechunk" =>
      /\ \A i \in DOMAIN chunks :
            /\ Len(chunks[i]) >= 1
            /\ (Len(chunks[i]) - 1) * splits < Cardinality(PendingFormulas)
      /\ Len(chunks) <= splits

(* prechunk(3) on two pending formulas: two chunks of one formula each *)
C25_Witness ==
    /\ step = "prechunk"
    /\ splits = 3
    /\ Cardinality(PendingFormulas) = 2
    /\ Len(chunks) = 2


(* The molecule id is in the window of the commit under way: it had
   documents before the commit, remove_docs has deleted them and update has
   not written one for it yet *)
InWindow(m) ==
    /\ commits["A"].pc = "update"
    /\ m \in MoleculeIdsOf(commits["A"].docs)
    /\ \E d \in last.before : d.molecule_id = m
    /\ ~\E d \in orbitals : d.molecule_id = m

(* The formulas the discovery call just made has yielded *)
Discovered ==
    IF step = "get_items"
    THEN {queue[i][1].formula_alphabetical : i \in DOMAIN queue}
    ELSE ChunkedFormulas

(* C26: a get_items or prechunk call of another process that reads the
   orbitals store between the remove_docs and the update of a commit counts
   as pending every molecule whose documents the commit has removed and not
   yet written again. *)
C26_WindowCountsPending ==
    step \in {"get_items", "prechunk"} =>
       \A m \in DOMAIN molecules :
          InWindow(m) =>
             /\ m \in ToProcessDocs
             /\ molecules[m].formula_alphabetical \in Discovered
             /\ step = "get_items" =>
                   \E i \in DOMAIN queue : \E k \in DOMAIN queue[i] :
                      queue[i][k].molecule_id = m

(* The window is reachable and observed: get_items ran right after the
   remove_docs of a commit on a molecule that had a document, and yielded
   the molecule's group, the other molecule being processed *)
C26_Witness ==
    /\ step = "get_items"
    /\ \E m \in DOMAIN molecules :
          /\ InWindow(m)
          /\ \E i \in DOMAIN queue : \E k \in DOMAIN queue[i] :
                queue[i][k].molecule_id = m
    /\ Len(queue) = 1
    /\ \E m \in DOMAIN molecules : m \in ProcessedDocs


(* The molecule ids of the documents of the batch about to be committed *)
BatchIds == UNION {MoleculeIdsOf(batch[i].docs) : i \in DOMAIN batch}

(* The ids of the molecules of the groups of the batch *)
BatchGroupIds ==
    UNION {MoleculeIdsOf(batch[i].items) : i \in DOMAIN batch}

(* C27: update_targets leaves as it is every document of the orbitals store
   whose molecule_id does not occur in the committed batch (none is removed,
   changed or added), and every molecule_id of the documents process_item
   returned for a group is the id of a molecule of that group: a commit
   never touches the documents of groups it did not process. *)
C27_CommitFrame ==
    /\ [](\A i \in DOMAIN batch : \A j \in DOMAIN batch[i].docs :
             \E k \in DOMAIN batch[i].items :
                batch[i].items[k].molecule_id = batch[i].docs[j].molecule_id)
    /\ [][step' = "update_targets" =>
             /\ {d \in orbitals : d.molecule_id \notin BatchIds}
                  = {d \in orbitals' : d.molecule_id \notin BatchIds}
             /\ {d \in orbitals : d.molecule_id \notin BatchGroupIds}
                  = {d \in orbitals' : d.molecule_id \notin BatchGroupIds}]_vars

(* A commit has written the documents of one group while the store held
   documents of a molecule of another group, which it kept *)
C27_Witness ==
    /\ JustCommitted
    /\ orbitals # last.before
    /\ \E d \in last.before \cap orbitals :
          \A i \in DOMAIN last.batch : \A k \in DOMAIN last.batch[i].items :
             last.batch[i].items[k].molecule_id # d.molecule_id


(* The molecules get_items must put in the group of a formula: those that
   are not deprecated, match the builder's query and have the formula *)
GroupMembers(f) ==
    {m \in DOMAIN molecules :
       /\ ~molecules[m].deprecated
       /\ molecules[m].formula_alphabetical \in query.formulas
       /\ molecules[m].formula_alphabetical = f}

(* C28: get_items yields exactly one group per pending formula, self.total
   being their number; every group is non-empty, its molecules share the
   formula, and it holds every non-deprecated molecule matching the query
   with that formula, those with orbital documents included. *)
C28_OneFullGroupPerFormula ==
    step = "get_items" =>
      /\ Len(queue) = total
      /\ total = Cardinality(PendingFormulas)
      /\ \A i, j \in DOMAIN queue :
            i # j => queue[i][1].formula_alphabetical # queue[j][1].formula_alphabetical
      /\ \A i \in DOMAIN queue :
            /\ queue[i] # <<>>
            /\ queue[i][1].formula_alphabetical \in PendingFormulas
            /\ \A k \in DOMAIN queue[i] :
                  /\ queue[i][k].formula_alphabetical = queue[i][1].formula_alphabetical
                  /\ queue[i][k] = molecules[queue[i][k].molecule_id]
            /\ \A k, l \in DOMAIN queue[i] :
                  k # l => queue[i][k].molecule_id # queue[i][l].molecule_id
            /\ MoleculeIdsOf(queue[i]) = GroupMembers(queue[i][1].formula_alphabetical)

(* get_items yielded a group of a molecule to process and a molecule that
   has an orbital document already *)
C28_Witness ==
    /\ step = "get_items"
    /\ \E i \in DOMAIN queue : \E k, l \in DOMAIN queue[i] :
          /\ queue[i][k].molecule_id \in ProcessedDocs
          /\ queue[i][l].molecule_id \notin ProcessedDocs
    /\ Len(queue) = 2


(* Both constructors have been called on the vasprun *)
BothCalled ==
    /\ outputs.from_vasp_files # "not called"
    /\ outputs.from_vasprun # "not called"

(* C29: from_vasp_files and from_vasprun assign the same has_vasp_completed
   to the same vasprun: for a molecular-dynamics run (IBRION = 0) SUCCESS
   exactly when NSW equals the number of steps performed, for every other
   run SUCCESS exactly when the vasprun is converged, FAILED otherwise. *)
C29_SameCompletion ==
    BothCalled =>
       LET expected ==
             IF Get(inputs.parameters, "IBRION", -1) = 0
             THEN IF Get(inputs.parameters, "NSW", 0) = MdNSteps(inputs)
                  THEN "SUCCESS" ELSE "FAILED"
             ELSE IF inputs.converged THEN "SUCCESS" ELSE "FAILED"
       IN /\ outputs.from_vasp_files = outputs.from_vasprun
          /\ outputs.from_vasp_files = expected


(* The items of the batch that are not empty *)
Remaining == FilterNone(inputs.items)

(* C30: Boltztrap2DosBuilder.update_targets drops the empty items of its
   batch; when none remains it writes nothing to the boltztrap store;
   otherwise it completes without error and upserts every remaining item
   with its "cdos" key removed, the payload being referenced by btz_dos_oid
   only when a GridFS name was configured. *)
C30_UpsertsWithoutCdos ==
    step = "boltztrap2_update_targets" =>
       IF Remaining = <<>>
       THEN boltztrap = inputs.store
       ELSE /\ outputs.kind = "returned"
            /\ \A i \in DOMAIN Remaining :
                  \E d \in boltztrap :
                     /\ d["material_id"] = Remaining[i]["material_id"]
                     /\ "cdos" \notin DOMAIN d
                     /\ ("btz_dos_oid" \in DOMAIN d) = (inputs.btz_cdos_fs # "None")
            /\ \A d \in boltztrap :
                  \/ d \in inputs.store
                  \/ \E i \in DOMAIN Remaining :
                        d["material_id"] = Remaining[i]["material_id"]


====
